---- MODULE Spec2Model ----
(***************************************************************************)
(* The media metadata index of the image tagging plugin: the               *)
(* ImageDataManager (id map, path map, recent tags), the legacy data       *)
(* migration used by importFromJSON, the plugin's vault event handlers     *)
(* that reconcile the index after a file is renamed or deleted, and the    *)
(* info panel that creates a record for a file it is opened on.            *)
(*                                                                         *)
(* JavaScript strings that the code takes apart (paths, ids) are sequences *)
(* of tokens: "a.png" is <<"a", ".", "png">> and the empty string is <<>>. *)
(* The data Map is a sequence of <<key, value>> entries in insertion order; *)
(* pathToIdMap, which the code never iterates, is a function from the keys *)
(* it holds.  An optional result (T | undefined) is a sequence of length 0 *)
(* or 1.                                                                   *)
(***************************************************************************)
EXTENDS Integers, Sequences, FiniteSets, TLC

(***************************************************************************)
(* Bounds of the model.                                                    *)
(***************************************************************************)
\* longest JSON array handed to importFromJSON
MaxLen == 2
\* largest value of the clock read by Date.now()
MaxNow == 0
\* most persistence writes that may be pending at once
MaxSaves == 1
\* most records the index may hold when the info panel creates another
MaxRecords == 1
\* most load tasks of the image cache in flight at once
MaxInFlight == 2
\* most callers that may await one load task
MaxWaiters == 2
\* most times the clock of the image cache advances
MaxTicks == 2
\* most calls of scanAllImages in progress at once
MaxScans == 2

(***************************************************************************)
(* Generic helpers.                                                        *)
(***************************************************************************)
Range(s) == {s[i] : i \in DOMAIN s}

Min(a, b) == IF a < b THEN a ELSE b

Max(a, b) == IF a < b THEN b ELSE a

\* Array.prototype.slice(0, n)
Take(s, n) == SubSeq(s, 1, Min(Len(s), n))

\* index of the last occurrence of tok in s, 0 when there is none
LastIndexOf(s, tok) ==
  LET hits == {i \in DOMAIN s : s[i] = tok}
  IN IF hits = {} THEN 0 ELSE CHOOSE i \in hits : \A j \in hits : j <= i

\* String.prototype.startsWith
StartsWith(s, prefix) ==
  /\ Len(prefix) <= Len(s)
  /\ SubSeq(s, 1, Len(prefix)) = prefix

(***************************************************************************)
(* JavaScript Map: entries <<key, value>> in insertion order.              *)
(***************************************************************************)
MapHas(m, k) == \E i \in DOMAIN m : m[i][1] = k

MapGet(m, k) ==
  LET hits == SelectSeq(m, LAMBDA e : e[1] = k)
  IN IF hits = <<>> THEN <<>> ELSE <<hits[1][2]>>

MapSet(m, k, v) ==
  IF MapHas(m, k)
  THEN [i \in DOMAIN m |-> IF m[i][1] = k THEN <<k, v>> ELSE m[i]]
  ELSE Append(m, <<k, v>>)

MapDelete(m, k) == SelectSeq(m, LAMBDA e : e[1] # k)

MapValues(m) == [i \in DOMAIN m |-> m[i][2]]

(***************************************************************************)
(* JavaScript Map whose order is never observed: a function on its keys.   *)
(***************************************************************************)
EmptyMap == [k \in {} |-> <<>>]

KeyGet(m, k) == IF k \in DOMAIN m THEN <<m[k]>> ELSE <<>>

KeySet(m, k, v) == [j \in DOMAIN m \cup {k} |-> IF j = k THEN v ELSE m[j]]

KeyDelete(m, k) == [j \in DOMAIN m \ {k} |-> m[j]]

(***************************************************************************)
(* Media types by extension (getMediaType) and the extension of a path.    *)
(***************************************************************************)
imageFormats == {<<"jpg">>, <<"jpeg">>, <<"png">>, <<"gif">>, <<"webp">>, <<"svg">>, <<"bmp">>}
videoFormats == {<<"mp4">>, <<"avi">>, <<"mov">>, <<"mkv">>, <<"webm">>}
audioFormats == {<<"mp3">>, <<"wav">>, <<"flac">>, <<"aac">>, <<"ogg">>}

MediaTypes == {<<"image">>, <<"video">>, <<"audio">>}

\* String.prototype.toLowerCase on the tokens the model uses
LowerTok(t) ==
  CASE t = "PNG" -> "png"
    [] t = "MP4" -> "mp4"
    [] OTHER -> t

toLowerCase(s) == [i \in DOMAIN s |-> LowerTok(s[i])]

\* getMediaType(file): the type of an extension, <<>> for null
getMediaType(extension) ==
  LET ext == toLowerCase(extension)
  IN IF ext \in imageFormats THEN << <<"image">> >>
     ELSE IF ext \in videoFormats THEN << <<"video">> >>
     ELSE IF ext \in audioFormats THEN << <<"audio">> >>
     ELSE <<>>

\* TFile.extension: what follows the last "." of the file name, "" without one
TFileExtension(path) ==
  LET slash == LastIndexOf(path, "/")
      name == SubSeq(path, slash + 1, Len(path))
      dot == LastIndexOf(name, ".")
  IN IF dot = 0 THEN <<>> ELSE SubSeq(name, dot + 1, Len(name))

\* settings.supportedFormats (DEFAULT_SUPPORTED_FORMATS)
supportedFormats == imageFormats \cup videoFormats \cup audioFormats

\* ImageTaggingPlugin.isSupportedImageFile(file)
isSupportedImageFile(path) == toLowerCase(TFileExtension(path)) \in supportedFormats

(***************************************************************************)
(* The values the model draws its inputs from.                             *)
(***************************************************************************)
IdsU == {<<"a">>, <<"b">>}

PathPng == <<"A", "/", "a", ".", "png">>
PathMp4 == <<"b", ".", "mp4">>
PathTxt == <<"n", ".", "txt">>

\* the paths of files in the vault
PathsU == {PathPng, PathMp4, PathTxt}

TagX == <<"x">>
TagY == <<"y">>

TagListsU == {<<>>, <<TagX>>, <<TagX, TagY>>}

\* a MediaData object as a caller of addImageData builds it
MediaData(id, path, tags, type) ==
  [id |-> id, path |-> path, title |-> <<"t">>, tags |-> tags, date |-> <<"d">>,
   description |-> <<>>, type |-> type]

\* the records handed to addImageData by its callers: type is set from the
\* extension, image when the extension is not recognized
TypeOrImage(path) ==
  LET detected == getMediaType(TFileExtension(path))
  IN IF detected = <<>> THEN <<"image">> ELSE detected[1]

RecordsU ==
  {MediaData(id, path, tags, TypeOrImage(path)) :
     id \in IdsU, path \in {PathPng, PathMp4}, tags \in TagListsU}

(***************************************************************************)
(* ImageDataManager.  An index is [data, pathToIdMap, recentTags].         *)
(***************************************************************************)
maxRecentTags == 20

\* updateRecentTags, the loop over the first n tags
RECURSIVE MoveToFront(_, _, _)
MoveToFront(recent, tags, n) ==
  IF n = 0 THEN recent
  ELSE LET before == MoveToFront(recent, tags, n - 1)
       IN <<tags[n]>> \o SelectSeq(before, LAMBDA t : t # tags[n])

updateRecentTags_KeepDuplicate(recent, tags) ==
  Take(tags \o recent, maxRecentTags)

updateRecentTags(recent, tags) ==
  Take(MoveToFront(recent, tags, Len(tags)), maxRecentTags)

\* existingData is looked up in the map as it is when the call is made
addImageData(ix, mediaData) ==
  LET existingData == MapGet(ix.data, mediaData.id)
      paths == IF existingData # <<>> /\ existingData[1].path # mediaData.path
               THEN KeyDelete(ix.pathToIdMap, existingData[1].path)
               ELSE ix.pathToIdMap
  IN [data |-> MapSet(ix.data, mediaData.id, mediaData),
      pathToIdMap |-> KeySet(paths, mediaData.path, mediaData.id),
      recentTags |-> updateRecentTags(ix.recentTags, mediaData.tags)]

getImageData(ix, id) == MapGet(ix.data, id)

removeImageData(ix, id) ==
  LET mediaData == MapGet(ix.data, id)
      paths == IF mediaData # <<>>
               THEN KeyDelete(ix.pathToIdMap, mediaData[1].path)
               ELSE ix.pathToIdMap
  IN [data |-> MapDelete(ix.data, id),
      pathToIdMap |-> paths,
      recentTags |-> ix.recentTags]

\* "if (id)": the empty string is falsy
getImageDataByPath(ix, path) ==
  LET id == KeyGet(ix.pathToIdMap, path)
  IN IF id # <<>> /\ id[1] # <<>> THEN MapGet(ix.data, id[1]) ELSE <<>>

(***************************************************************************)
(* JSON.  A parsed JSON value is tagged with its JavaScript type; a text   *)
(* is either malformed or the serialization of a value.                    *)
(***************************************************************************)
JNull == [t |-> "null"]
JNum == [t |-> "num"]
JStr(s) == [t |-> "str", s |-> s]
JArr(a) == [t |-> "arr", a |-> a]
JObj(o) == [t |-> "obj", o |-> o]

Malformed == [kind |-> "malformed"]
TextOf(value) == [kind |-> "json", value |-> value]

\* JSON.parse
JSONParse(text) ==
  IF text.kind = "malformed"
  THEN [threw |-> TRUE, value |-> JNull]
  ELSE [threw |-> FALSE, value |-> text.value]

\* JSON.stringify of one record: every own property, tags as an array
StringifyRecord(r) ==
  JObj([k \in DOMAIN r |->
          IF k = "tags"
          THEN JArr([i \in DOMAIN r.tags |-> JStr(r.tags[i])])
          ELSE JStr(r[k])])

\* a parsed object that passed isValidImageData, used as a MediaData
AsMediaData(item) ==
  [k \in DOMAIN item.o |->
     IF k = "tags"
     THEN [i \in DOMAIN item.o.tags.a |-> item.o.tags.a[i].s]
     ELSE item.o[k].s]

IsStr(v) == v.t = "str"

HasOwn(item, k) == item.t = "obj" /\ k \in DOMAIN item.o

(***************************************************************************)
(* DataMigration.                                                          *)
(***************************************************************************)
\* firstItem.hasOwnProperty('type') is a TypeError when firstItem is null
isLegacyFormat(parsed) ==
  IF parsed.t # "arr" \/ Len(parsed.a) = 0
  THEN [threw |-> FALSE, value |-> FALSE]
  ELSE IF parsed.a[1].t = "null"
  THEN [threw |-> TRUE, value |-> FALSE]
  ELSE [threw |-> FALSE, value |-> ~HasOwn(parsed.a[1], "type")]

\* item.path.split('.') is a TypeError unless item.path is a string
MigrateThrows(item) == ~(HasOwn(item, "path") /\ IsStr(item.o.path))

\* the type migrateFromLegacy derives from item.path
MigratedType(path) ==
  LET dot == LastIndexOf(path, ".")
      extension == toLowerCase(SubSeq(path, dot + 1, Len(path)))
      detectedType == getMediaType(extension)
  IN IF extension # <<>> /\ detectedType # <<>> THEN detectedType[1] ELSE <<"image">>

\* { ...item, type: mediaType }
MigrateItem(item) ==
  JObj([k \in DOMAIN item.o \cup {"type"} |->
          IF k = "type" THEN JStr(MigratedType(item.o.path.s)) ELSE item.o[k]])

migrateFromLegacy(legacyData) ==
  IF \E i \in DOMAIN legacyData : MigrateThrows(legacyData[i])
  THEN [threw |-> TRUE, value |-> <<>>]
  ELSE [threw |-> FALSE,
        value |-> [i \in DOMAIN legacyData |-> MigrateItem(legacyData[i])]]

loadDataWithMigration(jsonData) ==
  LET parsed == JSONParse(jsonData)
      legacy == isLegacyFormat(parsed.value)
  IN IF parsed.threw THEN [threw |-> TRUE, value |-> <<>>]
     ELSE IF parsed.value.t # "arr" THEN [threw |-> FALSE, value |-> <<>>]
     ELSE IF legacy.threw THEN [threw |-> TRUE, value |-> <<>>]
     ELSE IF legacy.value THEN migrateFromLegacy(parsed.value.a)
     ELSE [threw |-> FALSE, value |-> parsed.value.a]

(***************************************************************************)
(* ImageDataManager: import, export, cleanup.                              *)
(***************************************************************************)
isValidImageData(item) ==
  /\ item.t = "obj"
  /\ \A k \in {"id", "path", "title", "date", "description"} :
       HasOwn(item, k) /\ IsStr(item.o[k])
  /\ HasOwn(item, "tags")
  /\ item.o.tags.t = "arr"
  /\ \A i \in DOMAIN item.o.tags.a : IsStr(item.o.tags.a[i])
  /\ HasOwn(item, "type") =>
       IsStr(item.o.type) /\ item.o.type.s \in MediaTypes

\* the loop of importFromJSON over the first n items, from empty maps
RECURSIVE Ingest(_, _)
Ingest(items, n) ==
  IF n = 0 THEN [data |-> <<>>, pathToIdMap |-> EmptyMap]
  ELSE LET before == Ingest(items, n - 1)
           item == items[n]
       IN IF isValidImageData(item)
          THEN LET r == AsMediaData(item)
               IN [data |-> MapSet(before.data, r.id, r),
                   pathToIdMap |-> KeySet(before.pathToIdMap, r.path, r.id)]
          ELSE before

importFromJSON_KeepPaths(ix, jsonData) ==
  LET parsed == loadDataWithMigration(jsonData)
      ingested == Ingest(parsed.value, Len(parsed.value))
  IN IF parsed.threw THEN [threw |-> TRUE, index |-> ix]
     ELSE [threw |-> FALSE,
           index |-> [data |-> ingested.data,
                      pathToIdMap |-> ingested.pathToIdMap @@ ix.pathToIdMap,
                      recentTags |-> ix.recentTags]]

\* the result of importFromJSON: whether it threw, and the index afterwards
importFromJSON(ix, jsonData) ==
  LET parsed == loadDataWithMigration(jsonData)
      ingested == Ingest(parsed.value, Len(parsed.value))
  IN IF parsed.threw THEN [threw |-> TRUE, index |-> ix]
     ELSE [threw |-> FALSE,
           index |-> [data |-> ingested.data,
                      pathToIdMap |-> ingested.pathToIdMap,
                      recentTags |-> ix.recentTags]]

exportToJSON_DropLast(ix) ==
  LET values == MapValues(ix.data)
  IN TextOf(JArr([i \in 1..(Len(values) - 1) |-> StringifyRecord(values[i])]))

exportToJSON(ix) ==
  LET values == MapValues(ix.data)
  IN TextOf(JArr([i \in DOMAIN values |-> StringifyRecord(values[i])]))

\* path.replace(/\\/g, '/')
ReplaceBackslashes(s) == [i \in DOMAIN s |-> IF s[i] = "\\" THEN "/" ELSE s[i]]

NormalizeFolder_NoTrailingSlash(path) == ReplaceBackslashes(path)

\* the normalization of a scan folder: forward slashes and a trailing slash
NormalizeFolder(path) ==
  LET normalizedPath == ReplaceBackslashes(path)
  IN IF normalizedPath # <<>> /\ normalizedPath[Len(normalizedPath)] = "/"
     THEN normalizedPath
     ELSE Append(normalizedPath, "/")

\* String.prototype.trim() !== ''
NotBlank(s) == \E i \in DOMAIN s : s[i] # " "

isInScanFolder(path, scanFolderPath, scanMultipleFolderPaths) ==
  LET normalizedMediaPath == ReplaceBackslashes(path)
  IN IF Len(scanMultipleFolderPaths) > 0
     THEN \E i \in DOMAIN scanMultipleFolderPaths :
            StartsWith(normalizedMediaPath, NormalizeFolder(scanMultipleFolderPaths[i]))
     ELSE IF NotBlank(scanFolderPath)
     THEN StartsWith(normalizedMediaPath, NormalizeFolder(scanFolderPath))
     ELSE TRUE

\* validPathToIdMap after the first n kept entries
RECURSIVE ValidPaths(_, _)
ValidPaths(validData, n) ==
  IF n = 0 THEN EmptyMap
  ELSE KeySet(ValidPaths(validData, n - 1), validData[n][2].path, validData[n][1])

\* the result of cleanupInvalidImages: the index afterwards and removedCount
cleanupInvalidImages(ix, vaultFiles, scanFolderPath, scanMultipleFolderPaths) ==
  LET Keep(e) == /\ e[2].path \in vaultFiles
                 /\ isInScanFolder(e[2].path, scanFolderPath, scanMultipleFolderPaths)
      validData == SelectSeq(ix.data, Keep)
  IN [index |-> [data |-> validData,
                 pathToIdMap |-> ValidPaths(validData, Len(validData)),
                 recentTags |-> ix.recentTags],
      removedCount |-> Len(ix.data) - Len(validData)]

(***************************************************************************)
(* The JSON texts handed to importFromJSON.                                *)
(***************************************************************************)
\* an element with the six basic fields, typeOpt is <<>> or <<type>>
Element(id, path, tags, typeOpt) ==
  LET basic == [id |-> JStr(id), path |-> JStr(path), title |-> JStr(<<"t">>),
                tags |-> JArr(tags), date |-> JStr(<<"d">>),
                description |-> JStr(<<>>)]
  IN JObj([k \in DOMAIN basic \cup (IF typeOpt = <<>> THEN {} ELSE {"type"}) |->
             IF k = "type" THEN typeOpt[1] ELSE basic[k]])

Without(item, k) == JObj([j \in DOMAIN item.o \ {k} |-> item.o[j]])

With(item, k, v) == JObj([j \in DOMAIN item.o \cup {k} |-> IF j = k THEN v ELSE item.o[j]])

ElemsU ==
  { Element(<<"a">>, PathPng, <<>>, <<JStr(<<"image">>)>>),
    Element(<<"b">>, PathPng, <<JStr(TagX)>>, <<JStr(<<"image">>)>>),
    Element(<<"a">>, PathMp4, <<>>, <<>>),
    Element(<<>>, PathTxt, <<>>, <<JStr(<<"foo">>)>>),
    With(Element(<<"b">>, PathMp4, <<>>, <<JStr(<<"video">>)>>), "path", JNum),
    Element(<<"b">>, PathMp4, <<JNum>>, <<JStr(<<"video">>)>>),
    JNull }

ArraysU == UNION {[1..n -> ElemsU] : n \in 0..MaxLen}

NonArraysU == {JNull, JNum, JObj([id |-> JStr(<<"a">>)])}

TextsU == {Malformed} \cup {TextOf(v) : v \in NonArraysU} \cup {TextOf(JArr(a)) : a \in ArraysU}

\* what the plugin finds at jsonStoragePath when it loads: no file, or a text
StoredU ==
  {<<>>} \cup
  {<<text>> : text \in {Malformed, TextOf(JNull)} \cup
                       {TextOf(JArr(a)) : a \in UNION {[1..n -> ElemsU] : n \in 0..1}}} \cup
  {<<TextOf(JArr(<<Element(<<"a">>, PathTxt, <<>>, <<JStr(<<"image">>)>>)>>))>>}

\* what the plugin finds at jsonStoragePath where saves and scans are followed step by step: no
\* file, a text that is no JSON, or the export of one record
SavedStoredU ==
  {<<>>, <<Malformed>>,
   <<TextOf(JArr(<<Element(<<"b">>, PathPng, <<JStr(TagX)>>, <<JStr(<<"image">>)>>)>>))>>}

\* the scan folder settings handed to cleanupInvalidImages
FoldersU == {<<>>, <<"A">>}

\* records and scan folders for cleanupInvalidImages: "AB/x.png" shares its
\* first character with the folder "A"
PathAB == <<"A", "B", "/", "x", ".", "png">>

CleanPathsU == {PathPng, PathAB, PathMp4}

CleanRecordsU == {MediaData(id, p, <<>>, TypeOrImage(p)) : id \in IdsU, p \in CleanPathsU}

ScanFolderU == {<<>>, <<" ">>, <<"A">>, <<"A", "\\">>}

ScanFoldersU == {<<>>, << <<"A">> >>, << <<"b">>, <<"A", "/">> >>, << <<>> >>}

(***************************************************************************)
(* State.                                                                  *)
(***************************************************************************)
VARIABLES
  data,          \* ImageDataManager.data: id -> record
  pathToIdMap,   \* ImageDataManager.pathToIdMap: path -> id
  recentTags,    \* ImageDataManager.recentTags
  vaultFiles,    \* the paths of the files in the vault
  saves,         \* calls of saveDataToFile that have not finished
  panel,         \* the info panel's updateForFile awaiting the resolution
  imageInfoCache, \* image-cache-manager: path -> cached dimensions
  loadingQueue,  \* image-cache-manager: path -> the load task in flight
  probes,        \* the load tasks whose image has not resolved yet
  clock,         \* the time Date.now() returns to the cache manager
  mtime,         \* file.stat.mtime of the image files
  preload,       \* the call of preloadImageInfo in progress, if any
  written,       \* the text that the last adapter.write to finish stored
  writes,        \* the texts of the calls of adapter.write in flight
  scan,          \* the calls of scanAllImages in progress
  lastAdded,     \* history: id -> the record of the latest addImageData call,
                 \* kept while the index has only seen add and remove calls
  lastOp         \* history: the operation that produced this state

vars == <<data, pathToIdMap, recentTags, vaultFiles, saves, panel,
          imageInfoCache, loadingQueue, probes, clock, mtime, preload,
          written, writes, scan, lastAdded, lastOp>>

cacheVars == <<imageInfoCache, loadingQueue, probes, clock, mtime, preload>>

\* the storage file as the saves of this run have left it
disk == <<written, writes>>

plugin == <<vaultFiles, saves, panel, disk, scan>>

Index == [data |-> data, pathToIdMap |-> pathToIdMap, recentTags |-> recentTags]

SetIndex(ix) ==
  /\ data' = ix.data
  /\ pathToIdMap' = ix.pathToIdMap
  /\ recentTags' = ix.recentTags

\* the history of add calls is dropped at the first bulk operation
NoHistory == [valid |-> FALSE, latest |-> EmptyMap]

\* the image files whose dimensions the cache manager is asked for
CacheFilesU == {PathPng, PathAB}

\* the widths an image may turn out to have
DimsU == {1, 2}

\* the module-level maps of image-cache-manager.ts are empty when it is loaded;
\* no save has written and no scan runs
CacheInit ==
  /\ imageInfoCache = EmptyMap
  /\ loadingQueue = EmptyMap
  /\ probes = EmptyMap
  /\ clock = 0
  /\ mtime = [f \in CacheFilesU |-> 0]
  /\ preload = <<>>
  /\ written = <<>>
  /\ writes = <<>>
  /\ scan = <<>>

Init ==
  /\ data = <<>>
  /\ pathToIdMap = EmptyMap
  /\ recentTags = <<>>
  /\ vaultFiles = {}
  /\ saves = 0
  /\ panel = <<>>
  /\ CacheInit
  /\ lastAdded = [valid |-> TRUE, latest |-> EmptyMap]
  /\ lastOp = [op |-> "init"]

(***************************************************************************)
(* Calls of the index by its clients.                                      *)
(***************************************************************************)
CallAdd(r) ==
  /\ SetIndex(addImageData(Index, r))
  /\ lastAdded' = IF lastAdded.valid
                  THEN [lastAdded EXCEPT !.latest = KeySet(@, r.id, r)]
                  ELSE lastAdded
  /\ lastOp' = [op |-> "add", id |-> r.id,
                again |-> lastOp.op = "add" /\ MapGet(data, r.id) = <<r>>
                          /\ lastOp.id = r.id]
  /\ UNCHANGED <<plugin, cacheVars>>

CallRemove(id) ==
  /\ SetIndex(removeImageData(Index, id))
  /\ lastAdded' = [lastAdded EXCEPT !.latest = KeyDelete(@, id)]
  /\ lastOp' = [op |-> "remove", id |-> id, existed |-> MapHas(data, id)]
  /\ UNCHANGED <<plugin, cacheVars>>

CallImport(text) ==
  LET result == importFromJSON(Index, text)
  IN /\ SetIndex(result.index)
     /\ lastAdded' = NoHistory
     /\ lastOp' = [op |-> "import", text |-> text, threw |-> result.threw,
                   before |-> Len(data)]
     /\ UNCHANGED <<plugin, cacheVars>>

\* importFromJSON(exportToJSON())
CallRoundTrip ==
  LET result == importFromJSON(Index, exportToJSON(Index))
  IN /\ SetIndex(result.index)
     /\ lastAdded' = NoHistory
     /\ lastOp' = [op |-> "roundtrip", threw |-> result.threw,
                   text |-> exportToJSON(Index)]
     /\ UNCHANGED <<plugin, cacheVars>>

CallCleanup(existing, scanFolderPath, scanMultipleFolderPaths) ==
  LET result == cleanupInvalidImages(Index, existing, scanFolderPath,
                                     scanMultipleFolderPaths)
  IN /\ SetIndex(result.index)
     /\ lastAdded' = NoHistory
     /\ lastOp' = [op |-> "cleanup", removedCount |-> result.removedCount,
                   existing |-> existing, scanFolderPath |-> scanFolderPath,
                   scanMultipleFolderPaths |-> scanMultipleFolderPaths]
     /\ UNCHANGED <<plugin, cacheVars>>

(***************************************************************************)
(* The plugin: loading, vault events and their handlers, the info panel,   *)
(* saving.                                                                 *)
(***************************************************************************)
\* the plugin is constructed in a vault that already holds files
InitPlugin ==
  /\ data = <<>>
  /\ pathToIdMap = EmptyMap
  /\ recentTags = <<>>
  /\ vaultFiles \in SUBSET PathsU
  /\ saves = 0
  /\ panel = <<>>
  /\ CacheInit
  /\ lastAdded = NoHistory
  /\ lastOp = [op |-> "init"]

\* onload has run loadDataFromFile and registered the handlers
loaded == lastOp.op # "init"

\* the manager after loadDataFromFile: the import of an existing file, a
\* new ImageDataManager when there is none or the import threw
loadDataFromFile(ix, stored) ==
  LET fresh == [data |-> <<>>, pathToIdMap |-> EmptyMap, recentTags |-> <<>>]
  IN IF stored = <<>> THEN fresh
     ELSE LET result == importFromJSON(ix, stored[1])
          IN IF result.threw THEN fresh ELSE result.index

\* onload: the stored data is loaded, once, before any handler exists
LoadData(stored) ==
  /\ ~loaded
  /\ SetIndex(loadDataFromFile(Index, stored))
  /\ lastOp' = [op |-> "load", stored |-> stored]
  /\ UNCHANGED <<vaultFiles, saves, panel, lastAdded>>
  /\ UNCHANGED <<cacheVars, disk, scan>>

\* saveDataToFile() is called and not awaited
TriggerSave ==
  /\ saves < MaxSaves
  /\ saves' = saves + 1

\* a call of saveDataToFile finishes, its write done or failed; the text of
\* the storage file is not followed
SaveFinished ==
  /\ loaded
  /\ saves > 0
  /\ saves' = saves - 1
  /\ lastOp' = [op |-> "step"]
  /\ UNCHANGED <<data, pathToIdMap, recentTags, vaultFiles, panel, lastAdded>>
  /\ UNCHANGED <<cacheVars, disk, scan>>

\* s without its element at position i
RemoveAt(s, i) == SubSeq(s, 1, i - 1) \o SubSeq(s, i + 1, Len(s))

\* what "new ImageDataManager()" holds
NewManager == [data |-> <<>>, pathToIdMap |-> EmptyMap, recentTags |-> <<>>]

\* onload when adapter.exists or adapter.read rejects: the catch block of
\* loadDataFromFile replaces the manager by a new one
LoadDataFails ==
  /\ ~loaded
  /\ SetIndex(NewManager)
  /\ lastOp' = [op |-> "loadFailed"]
  /\ UNCHANGED <<vaultFiles, saves, panel, lastAdded>>
  /\ UNCHANGED <<cacheVars, disk, scan>>

\* a call of saveDataToFile is past "await ensureDirectoryExists": it takes
\* exportToJSON() of the index as it is now and hands the text to adapter.write
SaveExports ==
  /\ loaded
  /\ Len(writes) < saves
  /\ writes' = Append(writes, exportToJSON(Index))
  /\ lastOp' = [op |-> "step"]
  /\ UNCHANGED <<data, pathToIdMap, recentTags, vaultFiles, saves, panel, lastAdded>>
  /\ UNCHANGED <<cacheVars, written, scan>>

\* the adapter.write of a call resolves and the call returns: the file holds
\* the text of that call.  Nothing orders the writes of overlapping calls.
WriteFinished(i) ==
  /\ loaded
  /\ i \in DOMAIN writes
  /\ written' = <<writes[i]>>
  /\ writes' = RemoveAt(writes, i)
  /\ saves' = saves - 1
  /\ lastOp' = [op |-> "saved"]
  /\ UNCHANGED <<data, pathToIdMap, recentTags, vaultFiles, panel, lastAdded>>
  /\ UNCHANGED <<cacheVars, scan>>

SaveFailed_Reset(i) ==
  /\ loaded
  /\ saves > 0
  /\ IF i = 0
     THEN Len(writes) < saves /\ UNCHANGED writes
     ELSE i \in DOMAIN writes /\ writes' = RemoveAt(writes, i)
  /\ saves' = saves - 1
  /\ SetIndex(NewManager)
  /\ lastOp' = [op |-> "saveFailed"]
  /\ UNCHANGED <<vaultFiles, panel, lastAdded>>
  /\ UNCHANGED <<cacheVars, written, scan>>

\* a call of saveDataToFile throws, before its export (i = 0: saveSettings or
\* ensureDirectoryExists rejects) or in its adapter.write (the write i): the
\* catch block logs and shows a notice
SaveFailed(i) ==
  /\ loaded
  /\ saves > 0
  /\ IF i = 0
     THEN Len(writes) < saves /\ UNCHANGED writes
     ELSE i \in DOMAIN writes /\ writes' = RemoveAt(writes, i)
  /\ saves' = saves - 1
  /\ lastOp' = [op |-> "saveFailed"]
  /\ UNCHANGED <<data, pathToIdMap, recentTags, vaultFiles, panel, lastAdded>>
  /\ UNCHANGED <<cacheVars, written, scan>>

\* history: the scans in progress note that the file at path was deleted
NoteDeleted(path) == [k \in DOMAIN scan |-> [scan[k] EXCEPT !.deleted = @ \cup {path}]]

\* history: the scans in progress note that a file is at path again
NoteCreated(path) == [k \in DOMAIN scan |-> [scan[k] EXCEPT !.deleted = @ \ {path}]]

\* a file appears in the vault; the plugin registers no handler for it
VaultCreate(path) ==
  /\ loaded
  /\ path \notin vaultFiles
  /\ vaultFiles' = vaultFiles \cup {path}
  /\ scan' = NoteCreated(path)
  /\ lastOp' = [op |-> "step"]
  /\ UNCHANGED <<data, pathToIdMap, recentTags, saves, panel, lastAdded>>
  /\ UNCHANGED <<cacheVars, disk>>

\* the index after the 'delete' handler, for the record it found
DeleteHandler_KeepRecord(ix, imageData) ==
  [ix EXCEPT !.pathToIdMap = KeyDelete(@, imageData.path)]

DeleteHandler(ix, imageData) == removeImageData(ix, imageData.id)

\* a file is deleted and the vault's 'delete' event runs its handler
VaultDelete(path) ==
  LET imageData == getImageDataByPath(Index, path)
      handled == isSupportedImageFile(path) /\ imageData # <<>>
  IN /\ loaded
     /\ path \in vaultFiles
     /\ vaultFiles' = vaultFiles \ {path}
     /\ IF handled
        THEN /\ SetIndex(DeleteHandler(Index, imageData[1]))
             /\ TriggerSave
        ELSE UNCHANGED <<data, pathToIdMap, recentTags, saves>>
     /\ lastAdded' = NoHistory
     /\ scan' = NoteDeleted(path)
     /\ lastOp' = [op |-> "delete", handled |-> handled]
     /\ UNCHANGED panel
     /\ UNCHANGED <<cacheVars, disk>>

\* the index after the 'rename' handler: imageData is the object the map
\* holds, so "imageData.path = file.path" changes the stored record, and
\* addImageData then finds that same object as existingData
RenameHandler(ix, imageData, newPath) ==
  LET moved == [imageData EXCEPT !.path = newPath]
      aliased == [ix EXCEPT !.data = MapSet(@, imageData.id, moved)]
  IN addImageData(aliased, moved)

\* a file is renamed and the vault's 'rename' event runs its handler
VaultRename(oldPath, newPath) ==
  LET imageData == getImageDataByPath(Index, oldPath)
      handled == isSupportedImageFile(newPath) /\ imageData # <<>>
  IN /\ loaded
     /\ oldPath \in vaultFiles
     /\ newPath \notin vaultFiles
     /\ vaultFiles' = (vaultFiles \ {oldPath}) \cup {newPath}
     /\ IF handled
        THEN /\ SetIndex(RenameHandler(Index, imageData[1], newPath))
             /\ TriggerSave
        ELSE UNCHANGED <<data, pathToIdMap, recentTags, saves>>
     /\ lastAdded' = NoHistory
     /\ scan' = NoteCreated(newPath)
     /\ lastOp' = [op |-> "rename", handled |-> handled]
     /\ UNCHANGED panel
     /\ UNCHANGED <<cacheVars, disk>>

\* ImageTaggingPlugin.cleanupInvalidImages with the folders of the settings
PluginCleanup(scanFolderPath, scanMultipleFolderPaths) ==
  LET result == cleanupInvalidImages(Index, vaultFiles, scanFolderPath,
                                     scanMultipleFolderPaths)
  IN /\ loaded
     /\ SetIndex(result.index)
     /\ TriggerSave
     /\ lastAdded' = NoHistory
     /\ lastOp' = [op |-> "step"]
     /\ UNCHANGED <<vaultFiles, panel>>
     /\ UNCHANGED <<cacheVars, disk, scan>>

\* the default record ImageView.updateForFile builds for an unrecorded file
PanelRecord(path, time) ==
  [id |-> <<"img_", ToString(time), "_">> \o path, path |-> path,
   title |-> <<"t">>, tags |-> <<>>, date |-> <<"d">>, description |-> <<>>]

\* file-open: updateForFile finds no record, builds one with the time that
\* Date.now() returns, and awaits the resolution; with a record it only
\* renders
PanelOpen(path, time) ==
  /\ loaded
  /\ path \in vaultFiles
  /\ panel = <<>>
  /\ getImageDataByPath(Index, path) # <<>> \/ Len(data) < MaxRecords
  /\ panel' = IF getImageDataByPath(Index, path) = <<>>
              THEN <<PanelRecord(path, time)>>
              ELSE <<>>
  /\ lastOp' = [op |-> "step"]
  /\ UNCHANGED <<data, pathToIdMap, recentTags, vaultFiles, saves, lastAdded>>
  /\ UNCHANGED <<cacheVars, disk, scan>>

\* the resolution is there (or failed): the new record is added
PanelCreated ==
  /\ loaded
  /\ panel # <<>>
  /\ SetIndex(addImageData(Index, panel[1]))
  /\ panel' = <<>>
  /\ lastAdded' = NoHistory
  /\ lastOp' = [op |-> "step"]
  /\ UNCHANGED <<vaultFiles, saves>>
  /\ UNCHANGED <<cacheVars, disk, scan>>

(***************************************************************************)
(* The plugin: scanAllImages, run from start to end with nothing between.  *)
(***************************************************************************)
\* String.prototype.split(','): the pieces of s between its commas
RECURSIVE SplitComma(_)
SplitComma(s) ==
  LET commas == {i \in DOMAIN s : s[i] = ","}
  IN IF commas = {} THEN <<s>>
     ELSE LET first == CHOOSE i \in commas : \A j \in commas : i <= j
          IN <<SubSeq(s, 1, first - 1)>> \o SplitComma(SubSeq(s, first + 1, Len(s)))

\* String.prototype.trim
RECURSIVE trim(_)
trim(s) ==
  IF s # <<>> /\ s[1] = " " THEN trim(Tail(s))
  ELSE IF s # <<>> /\ s[Len(s)] = " " THEN trim(SubSeq(s, 1, Len(s) - 1))
  ELSE s

\* the tags createDefaultImageData gives a new record
AutoTags(autoTagOnImport, autoTagOnImportValue) ==
  IF autoTagOnImport /\ autoTagOnImportValue # <<>>
  THEN LET pieces == SplitComma(autoTagOnImportValue)
           trimmed == [i \in DOMAIN pieces |-> trim(pieces[i])]
       IN SelectSeq(trimmed, LAMBDA tag : Len(tag) > 0)
  ELSE <<>>

\* createDefaultImageData(file), with the time Date.now() returns
createDefaultImageData(path, time, autoTagOnImport, autoTagOnImportValue) ==
  [id |-> <<"media_", ToString(time), "_">> \o path, path |-> path,
   title |-> <<"t">>, tags |-> AutoTags(autoTagOnImport, autoTagOnImportValue),
   date |-> <<"d">>, description |-> <<>>, type |-> TypeOrImage(path)]

\* ImageTaggingPlugin.normalizePath
normalizePath(path) ==
  LET normalized == ReplaceBackslashes(path)
  IN IF normalized # <<>> /\ normalized[Len(normalized)] = "/"
     THEN normalized
     ELSE Append(normalized, "/")

\* folderPathsToUse of scanAllImages
FolderPathsToUse(scanFolderPath, scanMultipleFolderPaths) ==
  IF Len(scanMultipleFolderPaths) > 0
  THEN [i \in DOMAIN scanMultipleFolderPaths |-> normalizePath(scanMultipleFolderPaths[i])]
  ELSE IF NotBlank(scanFolderPath) THEN <<normalizePath(scanFolderPath)>>
  ELSE <<>>

isFileInFolder(filePath, folderPaths) ==
  LET normalizedFilePath == ReplaceBackslashes(filePath)
  IN \E i \in DOMAIN folderPaths : StartsWith(normalizedFilePath, folderPaths[i])

\* the loop of scanAllImages over the first n files: the index and mediaCount
RECURSIVE ScanFiles(_, _, _, _, _, _)
ScanFiles(ix, allFiles, n, time, autoTagOnImport, autoTagOnImportValue) ==
  IF n = 0 THEN [index |-> ix, mediaCount |-> 0]
  ELSE LET before == ScanFiles(ix, allFiles, n - 1, time, autoTagOnImport,
                               autoTagOnImportValue)
           file == allFiles[n]
       IN IF isSupportedImageFile(file)
             /\ getImageDataByPath(before.index, file) = <<>>
          THEN [index |-> addImageData(before.index,
                            createDefaultImageData(file, time, autoTagOnImport,
                                                   autoTagOnImportValue)),
                mediaCount |-> before.mediaCount + 1]
          ELSE before

scanAllImages_ForgetPaths(ix, files, settings, time) ==
  LET folderPathsToUse == FolderPathsToUse(settings.scanFolderPath,
                                           settings.scanMultipleFolderPaths)
      allFiles == IF Len(folderPathsToUse) > 0
                  THEN SelectSeq(files, LAMBDA file : isFileInFolder(file, folderPathsToUse))
                  ELSE files
  IN ScanFiles([ix EXCEPT !.pathToIdMap = EmptyMap], allFiles, Len(allFiles),
               time, settings.autoTagOnImport, settings.autoTagOnImportValue)

\* scanAllImages over the files that vault.getFiles() returned
scanAllImages(ix, files, settings, time) ==
  LET folderPathsToUse == FolderPathsToUse(settings.scanFolderPath,
                                           settings.scanMultipleFolderPaths)
      allFiles == IF Len(folderPathsToUse) > 0
                  THEN SelectSeq(files, LAMBDA file : isFileInFolder(file, folderPathsToUse))
                  ELSE files
  IN ScanFiles(ix, allFiles, Len(allFiles), time, settings.autoTagOnImport,
               settings.autoTagOnImportValue)

\* the orders in which vault.getFiles() may list the files
Orderings(files) ==
  {order \in [1..Cardinality(files) -> files] : Range(order) = files}

\* settings.autoTagOnImport and settings.autoTagOnImportValue
AutoTagU ==
  {[autoTagOnImport |-> FALSE, autoTagOnImportValue |-> <<" ", "x", ",", ",", "x">>],
   [autoTagOnImport |-> TRUE, autoTagOnImportValue |-> <<>>],
   [autoTagOnImport |-> TRUE, autoTagOnImportValue |-> <<" ", "x", ",", ",", "x">>]}

\* the settings a scan runs with: one folder, or a list of one folder
ScanSettingsU ==
  {[scanFolderPath |-> f, scanMultipleFolderPaths |-> <<>>] @@ auto :
     f \in FoldersU, auto \in AutoTagU}
  \cup {[scanFolderPath |-> <<>>, scanMultipleFolderPaths |-> <<f>>] @@ auto :
          f \in FoldersU, auto \in AutoTagU}

\* a scan that runs to its end, the save it awaits included; every record it
\* creates reads the same time
ScanAll(files, settings, time) ==
  LET result == scanAllImages(Index, files, settings, time)
  IN /\ loaded
     /\ SetIndex(result.index)
     /\ lastAdded' = NoHistory
     /\ lastOp' = [op |-> "scan", mediaCount |-> result.mediaCount,
                   scanFolderPath |-> settings.scanFolderPath,
                   scanMultipleFolderPaths |-> settings.scanMultipleFolderPaths,
                   previous |-> IF lastOp.op = "scan"
                                   /\ lastOp.scanFolderPath = settings.scanFolderPath
                                   /\ lastOp.scanMultipleFolderPaths
                                        = settings.scanMultipleFolderPaths
                                THEN <<lastOp.mediaCount>> ELSE <<>>]
     /\ UNCHANGED <<vaultFiles, saves, panel>>
     /\ UNCHANGED <<cacheVars, disk, scan>>

NextScan ==
  \/ \E stored \in StoredU : LoadData(stored)
  \/ \E oldPath, newPath \in PathsU : VaultRename(oldPath, newPath)
  \/ \E files \in Orderings(vaultFiles), settings \in ScanSettingsU,
        time \in 0..MaxNow : ScanAll(files, settings, time)
  \/ SaveFinished

SpecScan == InitPlugin /\ [][NextScan]_vars

(***************************************************************************)
(* ImageCacheManager.  A call of getImageResolutionWithCache runs without  *)
(* interruption up to "await loadTask".  When the image of a load task     *)
(* loads or fails, loadImageResolution finishes, the caller that created   *)
(* the task runs its finally block and every caller awaiting the task gets *)
(* the result, all in the microtasks of that one event.                    *)
(***************************************************************************)
\* 30 * 60 * 1000 milliseconds
CACHE_EXPIRY_TIME == 1800000

CacheState == [imageInfoCache |-> imageInfoCache, loadingQueue |-> loadingQueue,
               probes |-> probes]

SetCacheState(cs) ==
  /\ imageInfoCache' = cs.imageInfoCache
  /\ loadingQueue' = cs.loadingQueue
  /\ probes' = cs.probes

CacheValid_IgnoreMtime(cached, now, fileMtime) ==
  now - cached.lastFetchTime < CACHE_EXPIRY_TIME

\* the test getImageResolutionWithCache makes of a cached entry
CacheValid(cached, now, fileMtime) ==
  /\ now - cached.lastFetchTime < CACHE_EXPIRY_TIME
  /\ fileMtime <= cached.lastFetchTime

getImageResolutionWithCache_CacheFirst(cs, filePath, now, fileMtime, caller) ==
  LET queued == KeyGet(cs.loadingQueue, filePath)
      cached == KeyGet(cs.imageInfoCache, filePath)
      task == CHOOSE id \in 1..(MaxInFlight + 1) : id \notin DOMAIN cs.probes
  IN IF cached # <<>> /\ CacheValid(cached[1], now, fileMtime)
     THEN [outcome |-> "cached", result |-> <<cached[1].width>>, cache |-> cs]
     ELSE [outcome |-> "probe", result |-> <<>>,
           cache |-> [cs EXCEPT
                        !.probes = KeySet(@, task, [path |-> filePath,
                                                    waiters |-> <<caller>>]),
                        !.loadingQueue = KeySet(@, filePath, task)]]

\* getImageResolutionWithCache up to its return or to "await loadTask": what
\* the call did, the value it returned at once, and the maps afterwards
getImageResolutionWithCache(cs, filePath, now, fileMtime, caller) ==
  LET queued == KeyGet(cs.loadingQueue, filePath)
      cached == KeyGet(cs.imageInfoCache, filePath)
      task == CHOOSE id \in 1..(MaxInFlight + 1) : id \notin DOMAIN cs.probes
  IN IF queued # <<>>
     THEN [outcome |-> "joined", result |-> <<>>,
           cache |-> [cs EXCEPT !.probes[queued[1]].waiters = Append(@, caller)]]
     ELSE IF cached # <<>> /\ CacheValid(cached[1], now, fileMtime)
     THEN [outcome |-> "cached", result |-> <<cached[1].width>>, cache |-> cs]
     ELSE [outcome |-> "probe", result |-> <<>>,
           cache |-> [cs EXCEPT
                        !.probes = KeySet(@, task, [path |-> filePath,
                                                    waiters |-> <<caller>>]),
                        !.loadingQueue = KeySet(@, filePath, task)]]

\* the maps stay within the bounds of the model
CacheFits(cs) ==
  /\ Cardinality(DOMAIN cs.probes) <= MaxInFlight
  /\ \A task \in DOMAIN cs.probes : Len(cs.probes[task].waiters) <= MaxWaiters

loadImageResolution_CacheFailure(cs, task, result, now) ==
  LET filePath == cs.probes[task].path
  IN [imageInfoCache |-> KeySet(cs.imageInfoCache, filePath,
                                [width |-> IF result # <<>> THEN result[1] ELSE 0,
                                 lastFetchTime |-> now]),
      loadingQueue |-> KeyDelete(cs.loadingQueue, filePath),
      probes |-> KeyDelete(cs.probes, task)]

\* the image of a load task loaded (result = <<width>>) or failed (<<>>):
\* loadImageResolution caches a success, and the finally block of the call
\* that created the task deletes the path from loadingQueue
loadImageResolution(cs, task, result, now) ==
  LET filePath == cs.probes[task].path
  IN [imageInfoCache |-> IF result # <<>>
                         THEN KeySet(cs.imageInfoCache, filePath,
                                     [width |-> result[1], lastFetchTime |-> now])
                         ELSE cs.imageInfoCache,
      loadingQueue |-> KeyDelete(cs.loadingQueue, filePath),
      probes |-> KeyDelete(cs.probes, task)]

indexVars == <<data, pathToIdMap, recentTags, plugin, lastAdded>>

\* some client calls getImageResolutionWithCache(file)
GetResolution(filePath) ==
  LET call == getImageResolutionWithCache(CacheState, filePath, clock,
                                          mtime[filePath], "call")
  IN /\ CacheFits(call.cache)
     /\ SetCacheState(call.cache)
     /\ lastOp' = [op |-> "getResolution", path |-> filePath,
                   outcome |-> call.outcome, result |-> call.result]
     /\ UNCHANGED <<clock, mtime, preload, indexVars>>

\* the number of entries of waiters that are calls made by preloadImageInfo
PreloadWaiters(waiters) == Len(SelectSeq(waiters, LAMBDA w : w = "preload"))

ProbeResolves_DropCleared(task, result) ==
  /\ task \in DOMAIN probes
  /\ SetCacheState(loadImageResolution(CacheState, task,
        IF lastOp.op = "clear" /\ probes[task].path \in lastOp.inFlight
        THEN <<>> ELSE result, clock))
  /\ preload' = IF preload = <<>> THEN preload
                ELSE <<[preload[1] EXCEPT
                          !.outstanding = @ - PreloadWaiters(probes[task].waiters)]>>
  /\ lastOp' = [op |-> "resolved", path |-> probes[task].path, result |-> result,
                waiters |-> probes[task].waiters,
                afterClear |-> lastOp.op = "clear"
                               /\ probes[task].path \in lastOp.inFlight]
  /\ UNCHANGED <<clock, mtime, indexVars>>

\* the image of a load task loads or fails
ProbeResolves(task, result) ==
  /\ task \in DOMAIN probes
  /\ SetCacheState(loadImageResolution(CacheState, task, result, clock))
  /\ preload' = IF preload = <<>> THEN preload
                ELSE <<[preload[1] EXCEPT
                          !.outstanding = @ - PreloadWaiters(probes[task].waiters)]>>
  /\ lastOp' = [op |-> "resolved", path |-> probes[task].path, result |-> result,
                waiters |-> probes[task].waiters,
                afterClear |-> lastOp.op = "clear"
                               /\ probes[task].path \in lastOp.inFlight]
  /\ UNCHANGED <<clock, mtime, indexVars>>

\* the number of steps of 1 ms and of CACHE_EXPIRY_TIME - 1 ms that make up c
Ticks(c) == (c \div (CACHE_EXPIRY_TIME - 1)) + (c % (CACHE_EXPIRY_TIME - 1))

\* time passes
Advance(d) ==
  /\ Ticks(clock + d) <= MaxTicks
  /\ clock' = clock + d
  /\ lastOp' = [op |-> "step"]
  /\ UNCHANGED <<imageInfoCache, loadingQueue, probes, mtime, preload, indexVars>>

\* an image file is written: its mtime becomes the current time
Modify(filePath) ==
  /\ mtime[filePath] # clock
  /\ mtime' = [mtime EXCEPT ![filePath] = clock]
  /\ lastOp' = [op |-> "step"]
  /\ UNCHANGED <<imageInfoCache, loadingQueue, probes, clock, preload, indexVars>>

\* clearImageCache(filePath)
\* (calls that find neither an entry nor a load task for the path change
\* nothing and are left out)
ClearImageCache(filePath) ==
  /\ filePath \in DOMAIN imageInfoCache \cup DOMAIN loadingQueue
  /\ imageInfoCache' = KeyDelete(imageInfoCache, filePath)
  /\ lastOp' = [op |-> "clear", inFlight |-> {filePath} \cap DOMAIN loadingQueue]
  /\ UNCHANGED <<loadingQueue, probes, clock, mtime, preload, indexVars>>

\* clearAllImageCache()
ClearAllImageCache ==
  /\ DOMAIN imageInfoCache \cup DOMAIN loadingQueue # {}
  /\ imageInfoCache' = EmptyMap
  /\ lastOp' = [op |-> "clear", inFlight |-> DOMAIN loadingQueue]
  /\ UNCHANGED <<loadingQueue, probes, clock, mtime, preload, indexVars>>

NextCache ==
  \/ \E filePath \in CacheFilesU : ClearImageCache(filePath)
  \/ ClearAllImageCache
  \/ \E filePath \in CacheFilesU : GetResolution(filePath)
  \/ \E task \in 1..(MaxInFlight + 1), result \in {<<>>} \cup {<<d>> : d \in DimsU} :
       ProbeResolves(task, result)
  \/ \E d \in {1, CACHE_EXPIRY_TIME - 1} : Advance(d)
  \/ \E filePath \in CacheFilesU : Modify(filePath)

SpecCache == Init /\ [][NextCache]_vars

(***************************************************************************)
(* preloadImageInfo(files, app, maxConcurrent).  preload is <<>> while no   *)
(* call is running; otherwise it holds the arguments, the loop variable i   *)
(* and the number of calls of the current batch that have not completed.    *)
(***************************************************************************)
RECURSIVE IssueBatch(_, _, _, _)
\* batch.map(file => getImageResolutionWithCache(file, app)): the calls are
\* made one after the other before anything else runs
IssueBatch(cs, batch, now, mtimes) ==
  IF batch = <<>> THEN [cache |-> cs, outstanding |-> 0, started |-> 0]
  ELSE LET call == getImageResolutionWithCache(cs, Head(batch), now,
                                               mtimes[Head(batch)], "preload")
           rest == IssueBatch(call.cache, Tail(batch), now, mtimes)
       IN [cache |-> rest.cache,
           outstanding |-> rest.outstanding +
                           (IF call.outcome = "cached" THEN 0 ELSE 1),
           started |-> rest.started +
                       (IF call.outcome = "probe" THEN 1 ELSE 0)]

\* files.slice(i, i + maxConcurrent), i counted from 0
BatchAt_Unbatched(files, i, maxConcurrent) ==
  SubSeq(files, i + 1, Len(files))

BatchAt(files, i, maxConcurrent) ==
  SubSeq(files, i + 1, Min(Len(files), i + maxConcurrent))

\* one evaluation of the loop head at index i: the loop ends, or the batch at
\* i is issued and the call awaits it
PreloadLoop(files, maxConcurrent, i) ==
  IF ~(i < Len(files))
  THEN /\ preload' = <<>>
       /\ lastOp' = [op |-> "preloaded"]
       /\ UNCHANGED <<imageInfoCache, loadingQueue, probes>>
  ELSE LET issued == IssueBatch(CacheState, BatchAt(files, i, maxConcurrent),
                                clock, mtime)
       IN /\ CacheFits(issued.cache)
          /\ SetCacheState(issued.cache)
          /\ preload' = <<[files |-> files, maxConcurrent |-> maxConcurrent,
                           i |-> i, outstanding |-> issued.outstanding]>>
          /\ lastOp' = [op |-> "batch", i |-> i, started |-> issued.started]

\* a client calls preloadImageInfo(files, app, maxConcurrent)
PreloadStart(files, maxConcurrent) ==
  /\ preload = <<>>
  /\ PreloadLoop(files, maxConcurrent, 0)
  /\ UNCHANGED <<clock, mtime, indexVars>>

\* Promise.all of the current batch has resolved: i += maxConcurrent, and the
\* loop head is evaluated again
PreloadNext ==
  /\ preload # <<>>
  /\ preload[1].outstanding = 0
  /\ PreloadLoop(preload[1].files, preload[1].maxConcurrent,
                 preload[1].i + preload[1].maxConcurrent)
  /\ UNCHANGED <<clock, mtime, indexVars>>

\* the lists of files and the limits preloadImageInfo is called with
PreloadFilesU == {<<>>, <<PathPng, PathAB>>, <<PathPng, PathAB, PathPng>>}

PreloadLimitsU == {0, 1, 2}

NextPreload ==
  \/ \E files \in PreloadFilesU, maxConcurrent \in PreloadLimitsU :
       PreloadStart(files, maxConcurrent)
  \/ PreloadNext
  \/ \E filePath \in CacheFilesU : GetResolution(filePath)
  \/ \E task \in 1..(MaxInFlight + 1), result \in {<<>>} \cup {<<d>> : d \in DimsU} :
       ProbeResolves(task, result)
  \/ \E filePath \in CacheFilesU : ClearImageCache(filePath)

SpecPreload == Init /\ [][NextPreload]_vars

\* every load task ends: the image loads or fails; and a preload whose batch
\* has completed goes on (the continuation of Promise.all runs whatever other
\* calls are made, so the bounds of the model must not hold it up for ever)
SpecPreloadFair ==
  /\ SpecPreload
  /\ SF_vars(PreloadNext)
  /\ \A task \in 1..(MaxInFlight + 1) :
       WF_vars(\E result \in {<<>>} \cup {<<d>> : d \in DimsU} :
                 ProbeResolves(task, result))

(***************************************************************************)
(* DataMigration.migrateFromLegacy called on arrays of legacy records.     *)
(***************************************************************************)
\* paths of legacy records: with a recognized, an upper-case, an unrecognized
\* and no extension, below a folder whose name has a dot, and a file in the
\* root of the vault whose whole name is "mp4"
LegacyPathsU ==
  {PathPng, PathMp4, PathTxt, <<"a", ".", "PNG">>, <<"n">>,
   <<"A", ".", "mp4", "/", "a">>, <<"mp4">>}

LegacyElemsU == {Element(id, path, <<>>, <<>>) : id \in IdsU, path \in LegacyPathsU}

LegacyArraysU == UNION {[1..n -> LegacyElemsU] : n \in 0..MaxLen}

\* the migration of the stored array, once
CallMigrate(legacyData) ==
  LET result == migrateFromLegacy(legacyData)
  IN /\ lastOp.op = "init"
     /\ lastOp' = [op |-> "migrate", legacyData |-> legacyData,
                   threw |-> result.threw, migrated |-> result.value]
     /\ UNCHANGED <<data, pathToIdMap, recentTags, lastAdded, plugin, cacheVars>>

NextMigrate == \E legacyData \in LegacyArraysU : CallMigrate(legacyData)

SpecMigrate == Init /\ [][NextMigrate]_vars

(***************************************************************************)
(* An ImageDataManager constructed with a list of recent tags.             *)
(***************************************************************************)
\* the lists passed to the constructor
ConstructorListsU == {<<>>, <<TagX>>, <<TagY, TagX>>, <<TagX, TagX>>}

\* new ImageDataManager(recentTags): the list is stored as it is passed
InitConstructed ==
  /\ data = <<>>
  /\ pathToIdMap = EmptyMap
  /\ recentTags \in ConstructorListsU
  /\ vaultFiles = {}
  /\ saves = 0
  /\ panel = <<>>
  /\ CacheInit
  /\ lastAdded = [valid |-> TRUE, latest |-> EmptyMap]
  /\ lastOp = [op |-> "init"]

(***************************************************************************)
(* getPopularTags.                                                         *)
(***************************************************************************)
\* tagCounts.set(tag, (tagCounts.get(tag) || 0) + 1) on a Map in insertion order
AddCount(tagCounts, tag) ==
  IF \E i \in DOMAIN tagCounts : tagCounts[i].tag = tag
  THEN [i \in DOMAIN tagCounts |->
          IF tagCounts[i].tag = tag
          THEN [tag |-> tag, count |-> tagCounts[i].count + 1]
          ELSE tagCounts[i]]
  ELSE Append(tagCounts, [tag |-> tag, count |-> 1])

RECURSIVE CountTags(_, _, _)
\* the inner loop over the first n tags of a record
CountTags(tagCounts, tags, n) ==
  IF n = 0 THEN tagCounts
  ELSE AddCount(CountTags(tagCounts, tags, n - 1), tags[n])

RECURSIVE CountRecords(_, _)
\* the outer loop over the first n records of data.values()
CountRecords(records, n) ==
  IF n = 0 THEN <<>>
  ELSE CountTags(CountRecords(records, n - 1), records[n].tags,
                 Len(records[n].tags))

RECURSIVE SortByCount(_)
\* Array.prototype.sort with (a, b) => b.count - a.count, which is stable
SortByCount(entries) ==
  IF entries = <<>> THEN <<>>
  ELSE LET first == Head(entries)
           rest == SortByCount(Tail(entries))
       IN SelectSeq(rest, LAMBDA e : e.count > first.count)
          \o <<first>>
          \o SelectSeq(rest, LAMBDA e : e.count <= first.count)

getPopularTags(ix, limit) ==
  Take(SortByCount(CountRecords(MapValues(ix.data), Len(ix.data))), limit)

\* the records createDefaultImageData builds for the files of a scan
ScannedRecordsU ==
  {createDefaultImageData(path, 0, cfg.autoTagOnImport, cfg.autoTagOnImportValue) :
     path \in {PathMp4}, cfg \in AutoTagU}

\* the records the index is given before getPopularTags is called
PopularRecordsU == {r \in RecordsU : r.path = PathPng} \cup ScannedRecordsU

\* the limits getPopularTags is called with
PopularLimitsU == {0, 1, 2}

CallPopular(limit) ==
  /\ lastOp' = [op |-> "popular", limit |-> limit,
                result |-> getPopularTags(Index, limit)]
  /\ UNCHANGED <<data, pathToIdMap, recentTags, lastAdded, plugin, cacheVars>>

NextPopular ==
  \/ \E r \in PopularRecordsU : CallAdd(r)
  \/ \E id \in IdsU : CallRemove(id)
  \/ \E limit \in PopularLimitsU : CallPopular(limit)

SpecPopular == Init /\ [][NextPopular]_vars

(***************************************************************************)
(* scanAllImages step by step.  The scan takes vault.getFiles() once and   *)
(* works through the files in order; for an image without a record it      *)
(* awaits createDefaultImageData, which awaits getImageResolutionWithCache *)
(* of utils.ts, and other handlers and scans run while the image loads.    *)
(* Between two such waits the scan runs in one turn of the event loop.     *)
(* Here imageInfoCache is the map of utils.ts and probes holds the images  *)
(* that utils.ts is loading; utils.ts has no loadingQueue.                 *)
(***************************************************************************)
\* getImageResolutionWithCache of utils.ts up to its return or to "await
\* loadImage(fileUrl)"
utilsGetImageResolutionWithCache(cs, filePath, now, fileMtime, caller) ==
  LET cached == KeyGet(cs.imageInfoCache, filePath)
      task == CHOOSE id \in 1..(MaxInFlight + 1) : id \notin DOMAIN cs.probes
  IN IF cached # <<>> /\ CacheValid(cached[1], now, fileMtime)
     THEN [outcome |-> "cached", result |-> <<cached[1].width>>, cache |-> cs]
     ELSE [outcome |-> "probe", result |-> <<>>,
           cache |-> [cs EXCEPT !.probes = KeySet(@, task, [path |-> filePath,
                                                           waiters |-> <<caller>>])]]

\* the image loaded (result = <<width>>) or failed (<<>>): utils.ts caches a
\* success
utilsImageLoaded(cs, task, result, now) ==
  LET filePath == cs.probes[task].path
  IN [imageInfoCache |-> IF result # <<>>
                         THEN KeySet(cs.imageInfoCache, filePath,
                                     [width |-> result[1], lastFetchTime |-> now])
                         ELSE cs.imageInfoCache,
      loadingQueue |-> cs.loadingQueue,
      probes |-> KeyDelete(cs.probes, task)]

\* the loop of a scan from where it stands up to its next wait or to its end:
\* a file that is not supported or has a record is passed over; a video or
\* audio file, or an image whose dimensions are cached, gets its record in the
\* same turn; for another image the scan awaits the load of the image
RECURSIVE ScanRun(_, _, _, _)
ScanRun(ix, cs, sc, time) ==
  IF sc.files = <<>> THEN [index |-> ix, cache |-> cs, scan |-> sc]
  ELSE LET file == Head(sc.files)
           call == utilsGetImageResolutionWithCache(cs, file, clock, mtime[file], "scan")
           mediaData == createDefaultImageData(file, time, FALSE, <<>>)
       IN IF ~isSupportedImageFile(file) \/ getImageDataByPath(ix, file) # <<>>
          THEN ScanRun(ix, cs, [sc EXCEPT !.files = Tail(@)], time)
          ELSE IF TypeOrImage(file) # <<"image">> \/ call.outcome = "cached"
          THEN ScanRun(addImageData(ix, mediaData), cs,
                       [sc EXCEPT !.files = Tail(@), !.mediaCount = @ + 1], time)
          ELSE [index |-> ix, cache |-> call.cache,
                scan |-> [sc EXCEPT !.pending =
                            <<CHOOSE t \in DOMAIN call.cache.probes : t \notin DOMAIN cs.probes>>]]

\* a call of scanAllImages starts: files is what vault.getFiles() returns
ScanStart(files, time) ==
  LET run == ScanRun(Index, CacheState,
                     [files |-> files, pending |-> <<>>, mediaCount |-> 0, deleted |-> {}],
                     time)
  IN /\ loaded
     /\ Len(scan) < MaxScans
     /\ CacheFits(run.cache)
     /\ SetIndex(run.index)
     /\ SetCacheState(run.cache)
     /\ scan' = Append(scan, run.scan)
     /\ lastAdded' = NoHistory
     /\ lastOp' = [op |-> "step"]
     /\ UNCHANGED <<vaultFiles, saves, panel, disk, clock, mtime, preload>>

\* the image that the scan k waits for loaded or failed: createDefaultImageData
\* returns the record, with the time Date.now() returns now in its id, the
\* scan adds it and goes on with its loop
ScanCreated(k, result, time) ==
  LET file == Head(scan[k].files)
      mediaData == createDefaultImageData(file, time, FALSE, <<>>)
      run == ScanRun(addImageData(Index, mediaData),
                     utilsImageLoaded(CacheState, scan[k].pending[1], result, clock),
                     [scan[k] EXCEPT !.files = Tail(@), !.pending = <<>>,
                                     !.mediaCount = @ + 1],
                     time)
  IN /\ k \in DOMAIN scan
     /\ scan[k].pending # <<>>
     /\ CacheFits(run.cache)
     /\ SetIndex(run.index)
     /\ SetCacheState(run.cache)
     /\ scan' = [scan EXCEPT ![k] = run.scan]
     /\ lastAdded' = NoHistory
     /\ lastOp' = [op |-> "step"]
     /\ UNCHANGED <<vaultFiles, saves, panel, disk, clock, mtime, preload>>

\* the scan k is through its files and the save it awaits when it added a
\* record is done: the call returns
ScanEnd(k) ==
  /\ k \in DOMAIN scan
  /\ scan[k].files = <<>>
  /\ scan' = RemoveAt(scan, k)
  /\ lastOp' = [op |-> "scanEnd", mediaCount |-> scan[k].mediaCount,
                deleted |-> scan[k].deleted]
  /\ UNCHANGED <<data, pathToIdMap, recentTags, vaultFiles, saves, panel, lastAdded>>
  /\ UNCHANGED <<cacheVars, disk>>

\* the plugin is constructed in a vault that holds media files only
InitMedia ==
  /\ InitPlugin
  /\ vaultFiles \subseteq {PathPng, PathMp4}

\* scans step by step, with the files of the vault being deleted meanwhile
NextScanSteps ==
  \/ \E stored \in SavedStoredU : LoadData(stored)
  \/ \E path \in PathsU : VaultDelete(path)
  \/ SaveFinished
  \/ \E files \in Orderings(vaultFiles), time \in 0..MaxNow : ScanStart(files, time)
  \/ \E k \in 1..MaxScans, result \in {<<>>, <<1>>}, time \in 0..MaxNow : ScanCreated(k, result, time)
  \/ \E k \in 1..MaxScans : ScanEnd(k)

SpecScanSteps == InitMedia /\ [][NextScanSteps]_vars

\* the creators of records side by side: scans and the info panel
NextCreate ==
  \/ \E stored \in SavedStoredU : LoadData(stored)
  \/ \E path \in PathsU, time \in 0..MaxNow : PanelOpen(path, time)
  \/ PanelCreated
  \/ \E files \in Orderings(vaultFiles), time \in 0..MaxNow : ScanStart(files, time)
  \/ \E k \in 1..MaxScans, result \in {<<>>, <<1>>}, time \in 0..MaxNow : ScanCreated(k, result, time)
  \/ \E k \in 1..MaxScans : ScanEnd(k)

SpecCreate == InitMedia /\ [][NextCreate]_vars

NextAddRemove ==
  \/ \E r \in RecordsU : CallAdd(r)
  \/ \E id \in IdsU : CallRemove(id)

SpecAddRemove == Init /\ [][NextAddRemove]_vars

SpecConstructed == InitConstructed /\ [][NextAddRemove]_vars

NextImport ==
  \/ \E text \in TextsU : CallImport(text)
  \/ CallRoundTrip

SpecImport == Init /\ [][NextImport]_vars

NextCleanup ==
  \/ \E r \in CleanRecordsU : CallAdd(r)
  \/ \E existing \in SUBSET CleanPathsU, f \in ScanFolderU, fs \in ScanFoldersU :
       CallCleanup(existing, f, fs)

SpecCleanup == Init /\ [][NextCleanup]_vars

NextIndex ==
  \/ \E r \in RecordsU : CallAdd(r)
  \/ \E id \in IdsU : CallRemove(id)
  \/ CallRoundTrip
  \/ \E existing \in SUBSET PathsU, f \in FoldersU :
       CallCleanup(existing, f, <<>>) \/ CallCleanup(existing, <<>>, <<f>>)

SpecIndex == Init /\ [][NextIndex]_vars

Next ==
  \/ \E stored \in StoredU : LoadData(stored)
  \/ \E path \in PathsU : VaultCreate(path)
  \/ \E path \in PathsU : VaultDelete(path)
  \/ \E oldPath, newPath \in PathsU : VaultRename(oldPath, newPath)
  \/ \E f \in FoldersU : PluginCleanup(f, <<>>) \/ PluginCleanup(<<>>, <<f>>)
  \/ \E path \in PathsU, time \in 0..MaxNow : PanelOpen(path, time)
  \/ PanelCreated
  \/ SaveFinished

Spec == InitPlugin /\ [][Next]_vars

\* the plugin with its storage file: loading, the delete handler and the panel
\* that change the index, and the steps of the calls of saveDataToFile
NextSaves ==
  \/ \E stored \in SavedStoredU : LoadData(stored)
  \/ \E path \in PathsU : VaultDelete(path)
  \/ \E path \in PathsU, time \in 0..MaxNow : PanelOpen(path, time)
  \/ PanelCreated
  \/ SaveExports
  \/ \E i \in 1..MaxSaves : WriteFinished(i)

SpecSaves == InitPlugin /\ [][NextSaves]_vars

\* the failures of loading and saving, where renames trigger the saves
NextPersist ==
  \/ \E stored \in SavedStoredU : LoadData(stored)
  \/ LoadDataFails
  \/ \E oldPath, newPath \in PathsU : VaultRename(oldPath, newPath)
  \/ \E path \in PathsU, time \in 0..MaxNow : PanelOpen(path, time)
  \/ PanelCreated
  \/ SaveExports
  \/ \E i \in 1..MaxSaves : WriteFinished(i)
  \/ \E i \in 0..MaxSaves : SaveFailed(i)

SpecPersist == InitPlugin /\ [][NextPersist]_vars

(***************************************************************************)
(* Properties.                                                             *)
(***************************************************************************)
LiveRecords == Range(MapValues(data))

\* C1: after any sequence of add and remove calls, getByPath(p) returns a
\* record iff some record in the index has path p, and the record returned is
\* the one most recently added under its id.
C1_GetByPathIffLive ==
  \A p \in PathsU :
    LET found == getImageDataByPath(Index, p)
    IN /\ (found # <<>>) <=> (\E r \in LiveRecords : r.path = p)
       /\ found # <<>> =>
            /\ lastAdded.valid
            /\ KeyGet(lastAdded.latest, found[1].id) = found

\* C10: add is idempotent: a second add of the record that was just added
\* leaves the id map, the path map and the recent tags as they were.
C10_AddIdempotent ==
  [][\A r \in RecordsU :
       (lastOp.op = "add" /\ lastOp.id = r.id /\ MapGet(data, r.id) = <<r>>
          /\ CallAdd(r)) =>
         (data' = data /\ pathToIdMap' = pathToIdMap /\ recentTags' = recentTags)]_vars

\* a record with tags has been added twice in a row
C10_Witness ==
  /\ lastOp.op = "add"
  /\ lastOp.again
  /\ MapGet(data, lastOp.id)[1].tags # <<>>
  /\ Len(data) >= 2

\* the index in the next state
IndexNext == [data |-> data', pathToIdMap |-> pathToIdMap', recentTags |-> recentTags']

\* C3: whenever the index holds a record r for oldPath and the rename
\* handler has run for (oldPath, newPath), afterwards getByPath(oldPath) is
\* unset and getByPath(newPath) returns r with its id unchanged and its path
\* equal to newPath.
C3_RenameReconciles ==
  [][\A oldPath, newPath \in PathsU :
       LET r == getImageDataByPath(Index, oldPath)
       IN (VaultRename(oldPath, newPath) /\ isSupportedImageFile(newPath)
             /\ r # <<>>) =>
            /\ getImageDataByPath(IndexNext, oldPath) = <<>>
            /\ getImageDataByPath(IndexNext, newPath)
                 = <<[r[1] EXCEPT !.path = newPath]>>]_vars

C2_PathsUnique ==
  /\ \A i, j \in DOMAIN data : i # j => data[i][2].path # data[j][2].path
  /\ DOMAIN pathToIdMap = {r.path : r \in LiveRecords}
  /\ \A r \in LiveRecords : pathToIdMap[r.path] = r.id

ImportedArray == lastOp.op = "import" /\ lastOp.text.kind = "json"
                   /\ lastOp.text.value.t = "arr"

\* the elements of the imported array that pass isValidImageData as given
ValidElements ==
  {e \in Range(lastOp.text.value.a) : isValidImageData(e)}

ItemsAfterMigration == loadDataWithMigration(lastOp.text).value

ValidAfterMigration ==
  SelectSeq(ItemsAfterMigration, isValidImageData)

ItemId(item) == item.o.id.s
ItemPath(item) == item.o.path.s

\* the last valid item with the given id, as a MediaData
LastValidWithId(id) ==
  LET hits == {i \in DOMAIN ValidAfterMigration : ItemId(ValidAfterMigration[i]) = id}
  IN AsMediaData(ValidAfterMigration[CHOOSE i \in hits : \A j \in hits : j <= i])

\* the last valid item with the given path, as a MediaData
LastValidWithPath(path) ==
  LET hits == {i \in DOMAIN ValidAfterMigration : ItemPath(ValidAfterMigration[i]) = path}
  IN AsMediaData(ValidAfterMigration[CHOOSE i \in hits : \A j \in hits : j <= i])

C6_ImportThrowsOnNonArray ==
  (lastOp.op = "import"
     /\ (lastOp.text.kind = "malformed" \/ lastOp.text.value.t # "arr"))
    => lastOp.threw

\* C7: a malformed element never makes importFromJSON throw: the elements
\* that fail isValidRecord are skipped and every valid element is ingested.
C7_MalformedElementsSkipped ==
  ImportedArray =>
    /\ ~lastOp.threw
    /\ \A e \in ValidElements : MapHas(data, ItemId(e))
    /\ \A r \in LiveRecords :
         \E e \in ValidElements : ItemId(e) = r.id /\ ItemPath(e) = r.path

\* C8: every record of the index carries a type among image, video, audio.
C8_EveryRecordTyped ==
  \A r \in LiveRecords : "type" \in DOMAIN r /\ r.type \in MediaTypes

NonLegacy(r) == "type" \in DOMAIN r /\ r.type \in MediaTypes

\* C9: for an index of valid, non-legacy records, importFromJSON of
\* exportToJSON() does not throw and yields the same ids, each with a record
\* equal field for field to the one exported.
C9_RoundTrip ==
  [][(lastOp'.op = "roundtrip" /\ \A r \in LiveRecords : NonLegacy(r)) =>
       /\ ~lastOp'.threw
       /\ Range(data') = Range(data)
       /\ Len(data') = Len(data)]_vars

\* a round trip of an index of two typed records, one of them with tags
C9_Witness ==
  /\ lastOp.op = "roundtrip"
  /\ ~lastOp.threw
  /\ Len(data) = 2
  /\ \A r \in LiveRecords : NonLegacy(r)
  /\ \E r \in LiveRecords : r.tags # <<>>

\* the scan roots in force: the list of folders when it is not empty, else
\* the single folder when it is not blank, else none
ScanRoots(scanFolderPath, scanMultipleFolderPaths) ==
  IF scanMultipleFolderPaths # <<>> THEN Range(scanMultipleFolderPaths)
  ELSE IF \E i \in DOMAIN scanFolderPath : scanFolderPath[i] # " "
  THEN {scanFolderPath}
  ELSE {}

\* path lies under root: root with "/" for "\" and a "/" at its end is a
\* prefix of path
UnderRoot(path, root) ==
  LET slashed == [i \in DOMAIN root |-> IF root[i] = "\\" THEN "/" ELSE root[i]]
      prefix == IF slashed # <<>> /\ slashed[Len(slashed)] = "/"
                THEN slashed ELSE slashed \o <<"/">>
  IN /\ Len(path) >= Len(prefix)
     /\ \A i \in DOMAIN prefix : path[i] = prefix[i]

\* C11: cleanupInvalidImages keeps a record iff its file exists and either
\* no scan root is configured or its path lies under one of the roots (root
\* "A" does not match "AB/x.png"); it returns the number of records it
\* dropped, and afterwards both maps hold the kept records and nothing else.
C11_CleanupKeepsExistingUnderRoots ==
  [][lastOp'.op = "cleanup" =>
       LET roots == ScanRoots(lastOp'.scanFolderPath, lastOp'.scanMultipleFolderPaths)
           Kept(e) == /\ e[2].path \in lastOp'.existing
                      /\ roots = {} \/ \E root \in roots : UnderRoot(e[2].path, root)
           kept == SelectSeq(data, Kept)
       IN /\ data' = kept
          /\ lastOp'.removedCount = Len(data) - Len(kept)
          /\ DOMAIN pathToIdMap' = {kept[i][2].path : i \in DOMAIN kept}
          /\ \A p \in DOMAIN pathToIdMap' :
               \E i \in DOMAIN kept :
                 kept[i][1] = pathToIdMap'[p] /\ kept[i][2].path = p]_vars

\* with every file present and the scan folder "A", a cleanup kept the
\* record of "A/a.png" and dropped the only other record
C11_Witness ==
  /\ lastOp.op = "cleanup"
  /\ lastOp.existing = CleanPathsU
  /\ lastOp.scanFolderPath = <<"A">>
  /\ lastOp.scanMultipleFolderPaths = <<>>
  /\ lastOp.removedCount = 1
  /\ Len(data) = 1
  /\ data[1][2].path = PathPng
  /\ DOMAIN pathToIdMap = {PathPng}

\* C12: a scan that runs to its end with nothing in between leaves every
\* file of the vault that lies under a scan root (any file when none is
\* configured) and has a supported extension with a record of that path which
\* getByPath returns; the records held before are unchanged; and the count it
\* reports is the number of records added.
C12_ScanCoversSupportedFiles ==
  [][lastOp'.op = "scan" =>
       LET roots == ScanRoots(lastOp'.scanFolderPath, lastOp'.scanMultipleFolderPaths)
       IN /\ \A path \in vaultFiles :
               (isSupportedImageFile(path)
                  /\ (roots = {} \/ \E root \in roots : UnderRoot(path, root))) =>
                 LET found == getImageDataByPath(IndexNext, path)
                 IN found # <<>> /\ found[1].path = path
          /\ \A i \in DOMAIN data : i \in DOMAIN data' /\ data'[i] = data[i]
          /\ lastOp'.mediaCount = Len(data') - Len(data)]_vars

\* C13: at any time at most one load task per path is in flight, and a call
\* of getImageResolutionWithCache that arrives while a task for its path is in
\* flight starts no task of its own: it awaits that task, whose result every
\* awaiting caller receives when it resolves.
C13_InFlightDeduplicated ==
  [][/\ \A t1, t2 \in DOMAIN probes' :
          probes'[t1].path = probes'[t2].path => t1 = t2
     /\ \A t \in DOMAIN probes :
          lastOp'.op = "getResolution" /\ lastOp'.path = probes[t].path
          => /\ lastOp'.outcome = "joined"
             /\ DOMAIN probes' = DOMAIN probes
             /\ probes'[t].waiters = Append(probes[t].waiters, "call")
             /\ imageInfoCache' = imageInfoCache
     /\ \A t \in DOMAIN probes :
          lastOp'.op = "resolved" /\ t \notin DOMAIN probes'
          => /\ lastOp'.waiters = probes[t].waiters
             /\ lastOp'.path = probes[t].path
             /\ lastOp'.path \notin DOMAIN loadingQueue']_vars

\* a task that two callers awaited has resolved with the dimensions
C13_Witness ==
  /\ lastOp.op = "resolved"
  /\ Len(lastOp.waiters) >= 2
  /\ lastOp.result # <<>>

\* C14: getImageResolutionWithCache returns a cached entry without a load task
\* only if now - lastFetchTime < CACHE_EXPIRY_TIME and the mtime of the file
\* is <= lastFetchTime; an entry older than the mtime of the file and an
\* expired entry are never returned.
C14_CachedOnlyIfValid ==
  [][lastOp'.op = "getResolution" /\ lastOp'.outcome = "cached"
     => /\ lastOp'.path \in DOMAIN imageInfoCache
        /\ clock - imageInfoCache[lastOp'.path].lastFetchTime < CACHE_EXPIRY_TIME
        /\ mtime[lastOp'.path] <= imageInfoCache[lastOp'.path].lastFetchTime
        /\ lastOp'.result = <<imageInfoCache[lastOp'.path].width>>
        /\ probes' = probes
        /\ loadingQueue' = loadingQueue]_vars

\* an entry is returned in the last millisecond of its validity
C14_Witness ==
  /\ lastOp.op = "getResolution"
  /\ lastOp.outcome = "cached"
  /\ clock - imageInfoCache[lastOp.path].lastFetchTime = CACHE_EXPIRY_TIME - 1

\* C15: when a load task fails its callers get nothing, the cache is left as
\* it was, and the next call for the path starts a fresh load task; after a
\* failure and after a success alike the path is no longer in loadingQueue
\* and no task for it remains.
C15_FailureNotCached ==
  [][lastOp'.op = "resolved"
     => /\ lastOp'.path \notin DOMAIN loadingQueue'
        /\ \A t \in DOMAIN probes' : probes'[t].path # lastOp'.path
        /\ lastOp'.result = <<>>
           => /\ imageInfoCache' = imageInfoCache
              /\ getImageResolutionWithCache(
                    [imageInfoCache |-> imageInfoCache',
                     loadingQueue |-> loadingQueue', probes |-> probes'],
                    lastOp'.path, clock', mtime'[lastOp'.path], "call").outcome
                 = "probe"
        /\ lastOp'.result # <<>>
           => /\ lastOp'.path \in DOMAIN imageInfoCache'
              /\ imageInfoCache'[lastOp'.path] =
                   [width |-> lastOp'.result[1], lastFetchTime |-> clock']]_vars

\* a load task failed for a path whose stale entry is still in the cache
C15_Witness ==
  /\ lastOp.op = "resolved"
  /\ lastOp.result = <<>>
  /\ lastOp.path \in DOMAIN imageInfoCache
  /\ lastOp.path \notin DOMAIN loadingQueue

RECURSIVE PreloadOutstanding(_, _)
\* the calls made by preloadImageInfo that await one of the given load tasks
PreloadOutstanding(ps, tasks) ==
  IF tasks = {} THEN 0
  ELSE LET t == CHOOSE task \in tasks : TRUE
       IN PreloadWaiters(ps[t].waiters) + PreloadOutstanding(ps, tasks \ {t})

\* C16: preloadImageInfo(files, app, maxConcurrent) issues its requests in
\* batches of maxConcurrent: a batch is issued only when every request of the
\* batch before it has completed, so at most maxConcurrent requests of the
\* call are outstanding at any time.
C16_PreloadBatches ==
  [][/\ preload' # <<>>
        => /\ PreloadOutstanding(probes', DOMAIN probes') = preload'[1].outstanding
           /\ preload'[1].outstanding <= preload'[1].maxConcurrent
     /\ lastOp'.op = "batch" /\ preload # <<>>
        => /\ PreloadOutstanding(probes, DOMAIN probes) = 0
           /\ lastOp'.i = preload[1].i + preload[1].maxConcurrent
           /\ lastOp'.started <= preload[1].maxConcurrent]_vars

\* a later batch of a preload has been issued and is still outstanding
C16_Witness ==
  /\ lastOp.op = "batch"
  /\ lastOp.i > 0
  /\ preload # <<>>
  /\ preload[1].outstanding > 0

\* C17: migrateFromLegacy returns one record per input record, in order, each
\* with its original fields unchanged and with type the classification of the
\* extension of the file at its path, image when the extension is not
\* recognized or the file has none.
C17_MigrateClassifies ==
  lastOp.op = "migrate"
  => /\ ~lastOp.threw
     /\ Len(lastOp.migrated) = Len(lastOp.legacyData)
     /\ \A i \in DOMAIN lastOp.legacyData :
          /\ Without(lastOp.migrated[i], "type") = lastOp.legacyData[i]
          /\ lastOp.migrated[i].o.type
               = JStr(TypeOrImage(lastOp.legacyData[i].o.path.s))

\* the distinct tags of a list
TagSet(tags) == {tags[i] : i \in DOMAIN tags}

\* C18: whatever list the index was constructed with, recentTags never has
\* more than maxRecentTags entries and never has a tag twice; and right after
\* a record with tags is added, its tags are at the front of the list, the
\* last of them first.
C18_RecentTagsInvariant ==
  /\ Len(recentTags) <= maxRecentTags
  /\ \A i, j \in DOMAIN recentTags : recentTags[i] = recentTags[j] => i = j
  /\ lastOp.op = "add" /\ MapGet(data, lastOp.id)[1].tags # <<>>
     => LET tags == MapGet(data, lastOp.id)[1].tags
            n == Min(Cardinality(TagSet(tags)), maxRecentTags)
        IN /\ Len(recentTags) >= n
           /\ TagSet(SubSeq(recentTags, 1, n)) \subseteq TagSet(tags)
           /\ recentTags[1] = tags[Len(tags)]

\* C19: no record of the index has a tag twice in its tags, whatever the
\* auto-tag settings of the scans that created records, whatever array was
\* imported and whatever tag edits were made.
C19_NoDuplicateTags ==
  \A r \in DOMAIN data :
    \A i, j \in DOMAIN data[r][2].tags :
      data[r][2].tags[i] = data[r][2].tags[j] => i = j

\* the tags of the records of the index, in the order of their first occurrence
AllTags == CountRecords(MapValues(data), Len(data))

\* the number of records of the index whose tags contain the tag
RecordsWith(tag) ==
  Cardinality({r \in DOMAIN data : tag \in TagSet(data[r][2].tags)})

FirstOccurrence(tag) == CHOOSE i \in DOMAIN AllTags : AllTags[i].tag = tag

\* the place of a tag when the tags are ordered by the number of records
\* that have them, greatest first, and by first occurrence among equals
Rank(tag) ==
  1 + Cardinality({i \in DOMAIN AllTags :
        \/ RecordsWith(AllTags[i].tag) > RecordsWith(tag)
        \/ /\ RecordsWith(AllTags[i].tag) = RecordsWith(tag)
           /\ i < FirstOccurrence(tag)})

\* C20: getPopularTags(limit) returns at most limit entries {tag, count},
\* count being the number of records whose tags contain the tag, ordered by
\* count descending and by first occurrence among equal counts; the result
\* is the first limit entries of that ordering of all tags.
C20_PopularTags ==
  lastOp.op = "popular"
  => /\ Len(lastOp.result) = Min(lastOp.limit, Len(AllTags))
     /\ \A i \in DOMAIN lastOp.result :
          /\ lastOp.result[i].tag \in TagSet([k \in DOMAIN AllTags |-> AllTags[k].tag])
          /\ lastOp.result[i].count = RecordsWith(lastOp.result[i].tag)
          /\ Rank(lastOp.result[i].tag) = i

\* C24: a load task that resolves with dimensions writes them into the cache
\* when it resolves, also when clearImageCache(path) or clearAllImageCache()
\* was called while it was in flight; so an entry for the path is in the
\* cache again after the clearing although no new request was made.
C24_ResolveWritesAfterClear ==
  [][lastOp.op = "clear" /\ lastOp'.op = "resolved" /\ lastOp'.result # <<>>
     => /\ lastOp'.path \in lastOp.inFlight => lastOp'.path \notin DOMAIN imageInfoCache
        /\ lastOp'.path \in DOMAIN imageInfoCache'
        /\ imageInfoCache'[lastOp'.path].width = lastOp'.result[1]
        /\ DOMAIN probes' \subseteq DOMAIN probes]_vars

\* a task resolved with dimensions right after the cache was cleared of its
\* path, and the path has an entry
C24_Witness ==
  /\ lastOp.op = "resolved"
  /\ lastOp.afterClear
  /\ lastOp.result # <<>>
  /\ lastOp.path \in DOMAIN imageInfoCache

\* C28: preloadImageInfo terminates: for every list of files and every
\* maxConcurrent >= 0, if every load task resolves or fails, a call that has
\* started returns.
C28_PreloadTerminates == (preload # <<>>) ~> (preload = <<>>)

\* C27: importFromJSON leaves the index as it was when its input is not a
\* JSON array: for text that does not parse, for a top-level value that is
\* not an array, and whenever it throws, data, pathToIdMap and recentTags
\* are the same after the call as before.
C27_ImportFrame ==
  [][lastOp'.op = "import"
     /\ (\/ lastOp'.threw
         \/ lastOp'.text.kind = "malformed"
         \/ lastOp'.text.value.t # "arr")
     => /\ data' = data
        /\ pathToIdMap' = pathToIdMap
        /\ recentTags' = recentTags]_vars

\* C30: the rename handler changes only the path of the renamed record and
\* the path map: the other fields of the record, every other record and the
\* recentTags list are the same after the handler as before it.
C30_RenameFrame ==
  [][lastOp'.op = "rename" /\ lastOp'.handled
     => /\ recentTags' = recentTags
        /\ Len(data') = Len(data)
        /\ \E k \in DOMAIN data :
             /\ \A i \in DOMAIN data \ {k} : data'[i] = data[i]
             /\ data'[k][1] = data[k][1]
             /\ \E newPath \in PathsU :
                  data'[k][2] = [data[k][2] EXCEPT !.path = newPath]]_vars

\* C29: when a scan has run to its end and the next operation is a scan with
\* the same scan folders over the same files, the second scan adds no record
\* (its count is 0) and leaves data, pathToIdMap and recentTags unchanged.
C29_ScanIdempotent ==
  [][lastOp'.op = "scan" /\ lastOp'.previous # <<>>
     => /\ lastOp'.mediaCount = 0
        /\ data' = data
        /\ pathToIdMap' = pathToIdMap
        /\ recentTags' = recentTags
        /\ saves' = saves]_vars

\* a scan that added a tagged record has been followed by a second scan
C29_Witness ==
  /\ lastOp.op = "scan"
  /\ lastOp.previous # <<>>
  /\ lastOp.previous[1] > 0
  /\ recentTags # <<>>

\* the load of the plugin failed: the file could not be read, or importFromJSON
\* threw on its text
LoadFailed ==
  \/ lastOp.op = "loadFailed"
  \/ /\ lastOp.op = "load"
     /\ lastOp.stored # <<>>
     /\ importFromJSON(NewManager, lastOp.stored[1]).threw

\* C21: when loading the stored file fails, the plugin ends onload with an
\* empty index and its handlers registered; when a call of saveDataToFile
\* fails, the index is after the failure what it was before.
C21_PersistenceFailures ==
  /\ [](LoadFailed => loaded /\ Index = NewManager)
  /\ [][lastOp'.op = "saveFailed" => /\ data' = data
                                     /\ pathToIdMap' = pathToIdMap
                                     /\ recentTags' = recentTags]_vars

\* a save failed while the index held a record, after a load that failed
C21_Witness ==
  /\ lastOp.op = "saveFailed"
  /\ Len(data) > 0
  /\ written = <<>>

\* C26: when every call of saveDataToFile has finished with its write done and
\* no creation of a record is under way, the storage file holds
\* exportToJSON() of the index.
C26_PersistenceConverges ==
  (saves = 0 /\ written # <<>> /\ panel = <<>>) => written[1] = exportToJSON(Index)

\* the index got a record after the only save took its export, and the write of
\* that save has finished
C26_Witness ==
  /\ lastOp.op = "saved"
  /\ saves = 0
  /\ panel = <<>>
  /\ written # <<>>
  /\ written[1] # exportToJSON(Index)

\* the records of the map d whose path is p
RecordsAt(d, p) == {r \in Range(MapValues(d)) : r.path = p}

\* C22: whatever the order in which scans and the info panel reach their
\* awaits, no step of a creator leaves a path with two records under
\* different ids: a record is not added for a path that got one between the
\* creator's check by path and its add.
C22_OneRecordPerPath ==
  [][\A p \in PathsU : Cardinality(RecordsAt(data', p)) <= Max(1, Cardinality(RecordsAt(data, p)))]_vars

\* C23: when a scan has ended and no scan is in progress, the index holds no
\* record with the path of a file that was deleted while the scan ran and has
\* not been created again.
C23_DeleteNotUndone ==
  (lastOp.op = "scanEnd" /\ scan = <<>>) =>
    \A p \in lastOp.deleted : RecordsAt(data, p) = {}

\* C25: the dimension lookups of record creation are coalesced: at most one
\* image load per path is in flight.
C25_CreationProbesCoalesced ==
  \A p \in PathsU : Cardinality({task \in DOMAIN probes : probes[task].path = p}) <= 1

====
